---------------------------- MODULE Spec2Model ----------------------------
(***************************************************************************)
(* HealthVault: the OTP authentication dialog (AuthModal) and the session  *)
(* context (AuthProvider).                                                 *)
(*                                                                         *)
(* The state is the React state of the two components, the asynchronous    *)
(* calls that are in flight (each with the values its closure captured     *)
(* when the handler was invoked), the interval and timeout callbacks that  *)
(* are scheduled, the token slot of localStorage and the last navigation.  *)
(* A step is one run of a callback or of a promise continuation: an        *)
(* operation of the context and the handler that awaits it resume in       *)
(* separate steps.                                                         *)
(* The backend (authService) is the environment: every call settles with   *)
(* a nondeterministic outcome.                                             *)
(***************************************************************************)
EXTENDS Integers, Sequences, FiniteSets, Bags, TLC

\* ------------------------------------------------------------------ bounds
\* In-flight handleSendOTP and handleVerifyOTP invocations of the dialog.
MaxInFlight == 2
\* Countdown intervals scheduled at the same time.
MaxIntervals == 2
\* Redirect timeouts scheduled at the same time.
MaxTimeouts == 1
\* In-flight context operations started by a consumer other than the dialog.
MaxAppCalls == 2
\* Seconds of a countdown that Spec follows (SpecCountdown follows all 60).
MaxTicks == 2

\* ------------------------------------------------------- program constants
\* setTimer(60)
TimerStart == 60
\* otp.length !== 6, slice(0, 6)
OtpLength == 6

\* ------------------------------------------------------------------ values
NULL == [id |-> 0, role |-> "none"]
Patient == [id |-> 1, role |-> "patient"]
Doctor == [id |-> 2, role |-> "doctor"]
Users == {Patient, Doctor}

NoToken == ""
Tokens == {"tok1"}

Digits == {"0", "1", "2", "3", "4", "5", "6", "7", "8", "9"}

DoctorDashboard == "/doctor/dashboard"
PatientDashboard == "/patient/dashboard"

VARIABLES
  \* AuthModal props and state
  open, activeTab, step, email, otp, isLoading, timer,
  fullName, role, phone, dateOfBirth, address, specialization,
  licenseNumber, experience,
  \* in-flight handleSendOTP / handleVerifyOTP invocations (captured closures)
  sendCalls, verifyCalls,
  \* countdown intervals: still to fire in the current second / already
  \* fired (or created) in the current second
  due, fired,
  \* pending redirect timeouts and the last navigation target
  timeouts, redirect,
  \* amount by which interval callbacks lowered the timer in the current second
  dec,
  \* AuthProvider state, localStorage token slot, pending initial fetch
  user, ctxIsLoading, token, initPending,
  \* in-flight context operations started by other consumers (a bag: they
  \* settle in any order), what the last completed one (or the provider's
  \* initial fetch) handed to its caller, and the user that the
  \* updateProfile function the consumer holds was created with (the user of
  \* the provider's render the consumer last took the context value from)
  appCalls, lastRet, heldUser,
  \* the callback last driven directly, and whether it started a backend
  \* call (SpecHandlers and SpecCountdown only)
  called,
  \* the Initiate call of the dialog that the backend last answered with
  \* success: the flow and the address the outstanding code was issued for
  issued

draftVars == <<email, fullName, role, phone, dateOfBirth, address,
               specialization, licenseNumber, experience>>
profileVars == <<phone, dateOfBirth, address, specialization, licenseNumber,
                 experience>>
dialogVars == <<open, activeTab, step, otp, isLoading, timer>>
flightVars == <<sendCalls, verifyCalls>>
clockVars == <<due, fired, timeouts, redirect, dec>>
sessVars == <<user, ctxIsLoading, token, initPending>>
appVars == <<appCalls, lastRet, heldUser>>
progVars == <<draftVars, dialogVars, flightVars, clockVars, sessVars, appVars>>
vars == <<progVars, called, issued>>

\* ----------------------------------------------------------------- helpers
RemoveAt(s, i) == SubSeq(s, 1, i - 1) \o SubSeq(s, i + 1, Len(s))

Min(a, b) == IF a < b THEN a ELSE b

\* e.target.value.replace(/\D/g, "").slice(0, 6)
StripNonDigits(raw) == SelectSeq(raw, LAMBDA ch : ch \in Digits)

Slice(s, n) == SubSeq(s, 1, Min(n, Len(s)))

\* (mutant) the slice(0, 6) forgotten
SanitizeOtpNoSlice(raw) == StripNonDigits(raw)

SanitizeOtp(raw) == Slice(StripNonDigits(raw), OtpLength)

HexDigits == Digits \cup {"a", "b", "c", "d", "e", "f",
                       "A", "B", "C", "D", "E", "F"}

DigitVal(ch) ==
  CASE ch = "0" -> 0 [] ch = "1" -> 1 [] ch = "2" -> 2 [] ch = "3" -> 3
    [] ch = "4" -> 4 [] ch = "5" -> 5 [] ch = "6" -> 6 [] ch = "7" -> 7
    [] ch = "8" -> 8 [] ch = "9" -> 9
    [] ch \in {"a", "A"} -> 10 [] ch \in {"b", "B"} -> 11
    [] ch \in {"c", "C"} -> 12 [] ch \in {"d", "D"} -> 13
    [] ch \in {"e", "E"} -> 14 [] ch \in {"f", "F"} -> 15

\* the longest prefix of s made of characters of the set allowed
RECURSIVE DigitsPrefix(_, _)
DigitsPrefix(s, allowed) ==
  IF s = <<>> \/ Head(s) \notin allowed THEN <<>>
  ELSE <<Head(s)>> \o DigitsPrefix(Tail(s), allowed)

RECURSIVE DecimalValue(_, _, _)
DecimalValue(s, radix, acc) ==
  IF s = <<>> THEN acc
  ELSE DecimalValue(Tail(s), radix, radix * acc + DigitVal(Head(s)))

\* The white space and line terminators parseInt skips (WhiteSpace and
\* LineTerminator of the language).  A character is a one-character string
\* when it is ASCII (the vertical tab, U+000B, stands between the quotes of
\* the sixth member) and the name of its code point otherwise, so that it
\* reads the same whatever the encoding the module is read in.
WhiteSpace ==
  {" ", "\t", "\n", "\f", "\r", "",
   "U+00A0", "U+1680", "U+2000", "U+2001", "U+2002", "U+2003", "U+2004",
   "U+2005", "U+2006", "U+2007", "U+2008", "U+2009", "U+200A", "U+2028",
   "U+2029", "U+202F", "U+205F", "U+3000", "U+FEFF"}

RECURSIVE SkipSpaces(_)
SkipSpaces(s) ==
  IF s # <<>> /\ Head(s) \in WhiteSpace THEN SkipSpaces(Tail(s)) ELSE s

\* parseInt(s): leading white space, an optional sign, an optional 0x, then
\* the leading digits of the radix; NaN without digits
ParseInt(s) ==
  LET t == SkipSpaces(s)
      neg == t # <<>> /\ Head(t) = "-"
      body == IF t # <<>> /\ Head(t) \in {"-", "+"} THEN Tail(t) ELSE t
      hex == Len(body) >= 2 /\ body[1] = "0" /\ body[2] \in {"x", "X"}
      ds == IF hex THEN DigitsPrefix(Tail(Tail(body)), HexDigits)
            ELSE DigitsPrefix(body, Digits)
      val == DecimalValue(ds, IF hex THEN 16 ELSE 10, 0)
  IN IF ds = <<>> THEN [nan |-> TRUE, val |-> 0]
     ELSE [nan |-> FALSE, val |-> IF neg THEN 0 - val ELSE val]

\* parseInt(experience) || 0
ParseIntOrZero(s) == IF ParseInt(s).nan THEN 0 ELSE ParseInt(s).val

\* (mutant) every profile field sent whatever the role
BuildProfileBothShapes ==
  [phone |-> phone, dateOfBirth |-> dateOfBirth, address |-> address,
   specialization |-> specialization, licenseNumber |-> licenseNumber,
   experience |-> ParseIntOrZero(experience)]

\* the profile object handleSendOTP builds for registerUser
BuildProfile ==
  IF role = "patient"
  THEN [phone |-> phone, dateOfBirth |-> dateOfBirth, address |-> address]
  ELSE [phone |-> phone, specialization |-> specialization,
        licenseNumber |-> licenseNumber,
        experience |-> ParseIntOrZero(experience)]


\* ------------------------------------------- the backend (authService)
\* What a backend call settles with: it throws, or returns a result object.
Throw == [throws |-> TRUE, success |-> FALSE, message |-> "",
          user |-> NULL, token |-> NoToken]

Answer(ok, u, t) ==
  [throws |-> FALSE, success |-> ok,
   message |-> IF ok THEN "accepted" ELSE "rejected", user |-> u, token |-> t]

\* registerUser, sendOTP, updateProfile -> {success, message}
PlainOutcomes == {Throw, Answer(TRUE, NULL, NoToken), Answer(FALSE, NULL, NoToken)}

\* verifyRegistration -> {success, message, user?, token?}
VerifyRegistrationOutcomes ==
  {Throw, Answer(FALSE, NULL, NoToken)}
    \cup {Answer(TRUE, u, t) : u \in Users \cup {NULL}, t \in Tokens \cup {NoToken}}

\* verifyOTPAndLogin -> {success, message, user?}
VerifyLoginOutcomes ==
  {Throw, Answer(FALSE, NULL, NoToken)}
    \cup {Answer(TRUE, u, NoToken) : u \in Users \cup {NULL}}

\* getCurrentUser -> User | null
GetCurrentUserOutcomes ==
  {Throw} \cup {Answer(TRUE, u, NoToken) : u \in Users \cup {NULL}}

\* logout -> void
LogoutOutcomes == {Throw, Answer(TRUE, NULL, NoToken)}

\* ------------------------------------- the session context (AuthProvider)
\* What an operation hands to its caller: a result object, nothing (void),
\* or an exception.
Returned(ok, msg) == [kind |-> "result", success |-> ok, message |-> msg]

ReturnedVoid == [kind |-> "void", success |-> FALSE, message |-> ""]

Raised == [kind |-> "raised", success |-> FALSE, message |-> ""]

\* Each operation, given the outcome o of its backend call: what it returns
\* and the session user and stored token it leaves.
registerUser(o) ==
  [ret |-> IF o.throws
           THEN Returned(FALSE, "Registration failed. Please try again.")
           ELSE Returned(o.success, o.message),
   user |-> user, token |-> token]

\* (mutant) the token is not stored
verifyRegistrationNoToken(o) ==
  IF o.throws
  THEN [ret |-> Returned(FALSE, "Verification failed. Please try again."),
        user |-> user, token |-> token, setUser |-> FALSE]
  ELSE LET set == o.success /\ o.user # NULL /\ o.token # NoToken
       IN [ret |-> Returned(o.success, o.message),
           user |-> IF set THEN o.user ELSE user,
           token |-> token, setUser |-> set]

\* (setUser: whether the operation called setUser)
verifyRegistration(o) ==
  IF o.throws
  THEN [ret |-> Returned(FALSE, "Verification failed. Please try again."),
        user |-> user, token |-> token, setUser |-> FALSE]
  ELSE LET set == o.success /\ o.user # NULL /\ o.token # NoToken
       IN [ret |-> Returned(o.success, o.message),
           user |-> IF set THEN o.user ELSE user,
           token |-> IF set THEN o.token ELSE token,
           setUser |-> set]

sendOTP(o) ==
  [ret |-> IF o.throws
           THEN Returned(FALSE, "Failed to send OTP. Please try again.")
           ELSE Returned(o.success, o.message),
   user |-> user, token |-> token]

verifyOTPAndLogin(o) ==
  IF o.throws
  THEN [ret |-> Returned(FALSE, "Login failed. Please try again."),
        user |-> user, token |-> token, setUser |-> FALSE]
  ELSE LET set == o.success /\ o.user # NULL
       IN [ret |-> Returned(o.success, o.message),
           user |-> IF set THEN o.user ELSE user,
           token |-> token, setUser |-> set]

logout(o) ==
  [ret |-> ReturnedVoid,
   user |-> IF o.throws THEN user ELSE NULL,
   token |-> token]

\* (mutant) the catch block only logs
refreshSessionKeepsUser(o) ==
  [ret |-> ReturnedVoid,
   user |-> IF o.throws THEN user ELSE o.user,
   token |-> token]

refreshSession(o) ==
  [ret |-> ReturnedVoid,
   user |-> IF o.throws THEN NULL ELSE o.user,
   token |-> token]

\* updateProfile once authService.updateProfile settled with o: the result it
\* will return, and whether it first awaits refreshSession()
updateProfileSettled(o) ==
  IF o.throws
  THEN [ret |-> Returned(FALSE, "Failed to update profile. Please try again."),
        refresh |-> FALSE]
  ELSE [ret |-> Returned(o.success, o.message), refresh |-> o.success]

\* updateProfile before any backend call: !user?.id, on the user of the
\* render that created the function the consumer calls
updateProfileNoUser == heldUser.id = 0

\* (mutant) setIsLoading(false) at the end of try instead of in finally
initializeAuthNoFinally(o) ==
  [user |-> IF ~o.throws /\ o.user # NULL THEN o.user ELSE user,
   isLoading |-> o.throws]

\* initializeAuth once getCurrentUser settled with o
initializeAuth(o) ==
  [user |-> IF ~o.throws /\ o.user # NULL THEN o.user ELSE user,
   isLoading |-> FALSE]

\* ------------------------------------------- queued promise continuations
\* An async function resumes, after the operation it awaited has returned,
\* in a continuation of its own, queued behind those queued before it.  A
\* call in flight holds its place in that queue in pos: 0 while its backend
\* call is pending, 1 when its continuation is the next to run.
Queued ==
  Cardinality({k \in 1..Len(sendCalls) : sendCalls[k].pos > 0})
    + Cardinality({k \in 1..Len(verifyCalls) : verifyCalls[k].pos > 0})
    + Cardinality({c \in BagToSet(appCalls) : c.pos > 0})

\* No continuation is queued: the callbacks of user events, timers and
\* renders run only then.
NoContinuationQueued == Queued = 0

\* A call in flight once the continuation at the head of the queue has run.
Advance(c) == IF c.pos > 0 THEN [c EXCEPT !.pos = c.pos - 1] ELSE c

AdvanceAll(calls) == [k \in 1..Len(calls) |-> Advance(calls[k])]

\* --------------------------------------------- the dialog (AuthModal)
\* The page that hosts the dialog is still the current one: no redirect has
\* run yet.  The model follows the page up to its first navigation.
Mounted == redirect = "none"

\* resetForm(): every setter it calls (role, activeTab, isLoading are not set)
resetForm ==
  /\ step' = "form"
  /\ email' = ""
  /\ otp' = <<>>
  /\ fullName' = ""
  /\ phone' = ""
  /\ dateOfBirth' = ""
  /\ address' = ""
  /\ specialization' = ""
  /\ licenseNumber' = ""
  /\ experience' = <<>>
  /\ timer' = 0

\* The call handleSendOTP(isLogin) issues, with the arguments it passes.
SendCall(isLogin) ==
  IF isLogin
  THEN [op |-> "sendOTP", email |-> email,
        stage |-> "backend", ret |-> ReturnedVoid, pos |-> 0]
  ELSE [op |-> "registerUser", email |-> email, fullName |-> fullName,
        role |-> role, profile |-> BuildProfile,
        stage |-> "backend", ret |-> ReturnedVoid, pos |-> 0]

\* (mutant) the full-name check forgotten
handleSendOTPNoNameCheck(isLogin) ==
  IF email = ""
  THEN UNCHANGED progVars
  ELSE /\ Len(sendCalls) + Len(verifyCalls) < MaxInFlight
       /\ isLoading' = TRUE
       /\ sendCalls' = Append(sendCalls, SendCall(isLogin))
       /\ UNCHANGED <<draftVars, open, activeTab, step, otp, timer,
                      verifyCalls, clockVars, sessVars, appVars>>

\* handleSendOTP(isLogin), up to its await
handleSendOTP(isLogin) ==
  IF email = ""
  THEN UNCHANGED progVars
  ELSE IF ~isLogin /\ fullName = ""
  THEN UNCHANGED progVars
  ELSE /\ Len(sendCalls) + Len(verifyCalls) < MaxInFlight
       /\ isLoading' = TRUE
       /\ sendCalls' = Append(sendCalls, SendCall(isLogin))
       /\ UNCHANGED <<draftVars, open, activeTab, step, otp, timer,
                      verifyCalls, clockVars, sessVars, appVars>>

\* What the backend issued a code for: the flow and the address.
Issued(op, e) == [op |-> op, email |-> e]

\* registerUser or sendOTP after its await: the backend call of call i
\* settles with outcome o and the operation returns to handleSendOTP.
SendOTPReturns(i, o) ==
  /\ Mounted
  /\ i \in 1..Len(sendCalls)
  /\ sendCalls[i].stage = "backend"
  /\ o \in PlainOutcomes
  /\ LET c == sendCalls[i]
         r == IF c.op = "registerUser" THEN registerUser(o) ELSE sendOTP(o)
     IN /\ sendCalls' = [sendCalls EXCEPT ![i].stage = "returned",
                                          ![i].ret = r.ret,
                                          ![i].pos = Queued + 1]
        /\ user' = r.user
        /\ token' = r.token
  /\ UNCHANGED <<draftVars, dialogVars, verifyCalls, clockVars, ctxIsLoading,
                 initPending, appVars, called, issued>>

\* handleSendOTP after its await, on the result call i was returned
SendOTPSettles(i) ==
  /\ Mounted
  /\ i \in 1..Len(sendCalls)
  /\ sendCalls[i].pos = 1
  /\ LET c == sendCalls[i]
     IN /\ sendCalls' = AdvanceAll(RemoveAt(sendCalls, i))
        /\ verifyCalls' = AdvanceAll(verifyCalls)
        /\ appCalls' = BagOfAll(Advance, appCalls)
        /\ isLoading' = FALSE
        /\ IF c.ret.kind = "raised" \/ ~c.ret.success
           THEN UNCHANGED <<step, timer, fired, issued>>
           ELSE /\ due + fired < MaxIntervals
                /\ step' = "otp"
                /\ timer' = TimerStart
                /\ fired' = fired + 1
                /\ issued' = Issued(c.op, c.email)
  /\ UNCHANGED <<draftVars, open, activeTab, otp, due, timeouts, redirect,
                 dec, sessVars, lastRet, heldUser, called>>

\* The call handleVerifyOTP issues, with what its closure holds for later;
\* signedIn: whether the operation it awaits has called setUser.
VerifyCall ==
  IF activeTab = "register"
  THEN [op |-> "verifyRegistration", email |-> email, otp |-> otp,
        role |-> role, signedIn |-> FALSE,
        stage |-> "backend", ret |-> ReturnedVoid, pos |-> 0]
  ELSE [op |-> "verifyOTPAndLogin", email |-> email, otp |-> otp,
        authUser |-> user, signedIn |-> FALSE,
        stage |-> "backend", ret |-> ReturnedVoid, pos |-> 0]

\* handleVerifyOTP, up to its await
handleVerifyOTP ==
  IF Len(otp) # OtpLength
  THEN UNCHANGED progVars
  ELSE /\ Len(sendCalls) + Len(verifyCalls) < MaxInFlight
       /\ isLoading' = TRUE
       /\ verifyCalls' = Append(verifyCalls, VerifyCall)
       /\ UNCHANGED <<draftVars, open, activeTab, step, otp, timer,
                      sendCalls, clockVars, sessVars, appVars>>

\* The timeout a successful verification schedules.
RedirectTimeout(c) ==
  IF c.op = "verifyRegistration"
  THEN [kind |-> "registration", role |-> c.role, age |-> 0]
  ELSE [kind |-> "login", authUser |-> c.authUser, age |-> 0]

\* (mutant) the entered code cleared when the verification is refused
VerifyRefusedClearsCode ==
  /\ otp' = <<>>
  /\ UNCHANGED <<draftVars, open, step, timer, timeouts>>

\* handleVerifyOTP after its await, on a result without success or on an
\* exception: a toast, and no setter but the setIsLoading(false) of finally
VerifyRefused == UNCHANGED <<draftVars, open, step, otp, timer, timeouts>>

\* verifyRegistration or verifyOTPAndLogin after its await: the backend call
\* of call i settles with outcome o and the operation returns to
\* handleVerifyOTP.
VerifyOTPReturns(i, o) ==
  /\ Mounted
  /\ i \in 1..Len(verifyCalls)
  /\ verifyCalls[i].stage = "backend"
  /\ LET c == verifyCalls[i]
         r == IF c.op = "verifyRegistration"
              THEN verifyRegistration(o) ELSE verifyOTPAndLogin(o)
     IN /\ o \in IF c.op = "verifyRegistration"
                 THEN VerifyRegistrationOutcomes ELSE VerifyLoginOutcomes
        /\ verifyCalls' = [verifyCalls EXCEPT ![i].stage = "returned",
                                              ![i].ret = r.ret,
                                              ![i].signedIn = r.setUser,
                                              ![i].pos = Queued + 1]
        /\ user' = r.user
        /\ token' = r.token
  /\ UNCHANGED <<draftVars, dialogVars, sendCalls, clockVars, ctxIsLoading,
                 initPending, appVars, called, issued>>

\* handleVerifyOTP after its await, on the result call i was returned
VerifyOTPSettles(i) ==
  /\ Mounted
  /\ i \in 1..Len(verifyCalls)
  /\ verifyCalls[i].pos = 1
  /\ LET c == verifyCalls[i]
     IN /\ verifyCalls' = AdvanceAll(RemoveAt(verifyCalls, i))
        /\ sendCalls' = AdvanceAll(sendCalls)
        /\ appCalls' = BagOfAll(Advance, appCalls)
        /\ isLoading' = FALSE
        /\ IF c.ret.kind # "raised" /\ c.ret.success
           THEN /\ Len(timeouts) < MaxTimeouts
                /\ open' = FALSE
                /\ resetForm
                /\ role' = role
                /\ timeouts' = Append(timeouts, RedirectTimeout(c))
           ELSE VerifyRefused
  /\ UNCHANGED <<activeTab, due, fired, redirect, dec, sessVars,
                 lastRet, heldUser, called, issued>>

\* (mutant) the timer === 0 check forgotten
handleResendOTPNoGate == handleSendOTP(activeTab = "login")

\* handleResendOTP
handleResendOTP ==
  IF timer = 0
  THEN handleSendOTP(activeTab = "login")
  ELSE UNCHANGED progVars

\* (mutant) Back implemented as a full reset of the form
handleBackToFormResets ==
  /\ resetForm
  /\ UNCHANGED <<role, open, activeTab, isLoading, flightVars, clockVars,
                 sessVars, appVars>>

\* handleBackToForm
handleBackToForm ==
  /\ step' = "form"
  /\ otp' = <<>>
  /\ timer' = 0
  /\ UNCHANGED <<draftVars, open, activeTab, isLoading, flightVars,
                 clockVars, sessVars, appVars>>

\* ------------------------------------------------- scheduled callbacks
\* One countdown interval callback runs: setTimer(prev => ...), and
\* clearInterval when it saw prev <= 1.
IntervalFires ==
  /\ Mounted
  /\ NoContinuationQueued
  /\ due > 0
  /\ due' = due - 1
  /\ IF timer <= 1
     THEN timer' = 0 /\ fired' = fired
     ELSE timer' = timer - 1 /\ fired' = fired + 1
  /\ dec' = dec + (timer - timer')
  /\ UNCHANGED <<draftVars, open, activeTab, step, otp, isLoading,
                 flightVars, timeouts, redirect, sessVars, appVars,
                 called, issued>>

\* The same callback, while the countdown is within its first MaxTicks
\* seconds or has been reset.
IntervalFiresEarly ==
  /\ timer \notin 2..(TimerStart - MaxTicks)
  /\ IntervalFires

\* Where a redirect timeout navigates when it runs.
RedirectTarget(t) ==
  IF t.kind = "registration"
  THEN IF t.role = "doctor" THEN DoctorDashboard ELSE PatientDashboard
  ELSE IF t.authUser # NULL
       THEN IF t.authUser.role = "doctor"
            THEN DoctorDashboard ELSE PatientDashboard
       ELSE PatientDashboard

\* A redirect timeout runs, 1000 ms after it was scheduled.
RedirectFires(j) ==
  /\ Mounted
  /\ NoContinuationQueued
  /\ j \in 1..Len(timeouts)
  /\ timeouts[j].age = 1
  /\ redirect' = RedirectTarget(timeouts[j])
  /\ timeouts' = RemoveAt(timeouts, j)
  /\ UNCHANGED <<draftVars, dialogVars, flightVars, due, fired, dec, sessVars,
                 appVars, called, issued>>

\* One second has passed: every interval scheduled before this second began
\* has run once in it, and every timeout that came due in it has run.
SecondElapses ==
  /\ Mounted
  /\ NoContinuationQueued
  /\ due = 0
  /\ \A j \in 1..Len(timeouts) : timeouts[j].age = 0
  /\ due' = fired
  /\ fired' = 0
  /\ dec' = 0
  /\ timeouts' = [j \in 1..Len(timeouts) |-> [timeouts[j] EXCEPT !.age = 1]]
  /\ UNCHANGED <<draftVars, dialogVars, flightVars, redirect, sessVars,
                 appVars, called, issued>>

\* ------------------------------------------------ what the dialog renders
\* (a user event is handled in a task of its own)
FormShown == Mounted /\ NoContinuationQueued /\ open /\ step = "form"

OtpShown == Mounted /\ NoContinuationQueued /\ open /\ step = "otp"

\* disabled={isLoading || !email}
SendLoginCodeDisabled == isLoading \/ email = ""

\* disabled={isLoading || !email || !fullName}
CreateAccountDisabled == isLoading \/ email = "" \/ fullName = ""

\* disabled={isLoading || otp.length !== 6}
VerifyDisabled == isLoading \/ Len(otp) # OtpLength

\* disabled={timer > 0}
ResendDisabled == timer > 0

\* ------------------------------------------------------------ user events
\* The parent shows the dialog (open = true).
OpenDialog ==
  /\ Mounted
  /\ NoContinuationQueued
  /\ ~open
  /\ open' = TRUE
  /\ UNCHANGED <<draftVars, activeTab, step, otp, isLoading, timer,
                 flightVars, clockVars, sessVars, appVars, called, issued>>

\* The user dismisses the dialog: Dialog calls onOpenChange(false).
DismissDialog ==
  /\ Mounted
  /\ NoContinuationQueued
  /\ open
  /\ open' = FALSE
  /\ UNCHANGED <<draftVars, activeTab, step, otp, isLoading, timer,
                 flightVars, clockVars, sessVars, appVars, called, issued>>

\* Tabs onValueChange
ChangeTab(v) ==
  /\ FormShown
  /\ activeTab' = v
  /\ UNCHANGED <<draftVars, open, step, otp, isLoading, timer,
                 flightVars, clockVars, sessVars, appVars, called, issued>>

\* the email input of either tab
ChangeEmail(e) ==
  /\ FormShown
  /\ email' = e
  /\ UNCHANGED <<fullName, role, profileVars, dialogVars, flightVars,
                 clockVars, sessVars, appVars, called, issued>>

\* the full-name input of the register tab
ChangeFullName(n) ==
  /\ FormShown
  /\ activeTab = "register"
  /\ fullName' = n
  /\ UNCHANGED <<email, role, profileVars, dialogVars, flightVars, clockVars,
                 sessVars, appVars, called, issued>>

\* the role toggle button of the register tab
ToggleRole ==
  /\ FormShown
  /\ activeTab = "register"
  /\ role' = IF role = "patient" THEN "doctor" ELSE "patient"
  /\ UNCHANGED <<email, fullName, profileVars, dialogVars, flightVars,
                 clockVars, sessVars, appVars, called, issued>>

\* the profile inputs of the register tab: phone for either role, then the
\* inputs rendered for the selected role
ChangePhone(v) ==
  /\ FormShown
  /\ activeTab = "register"
  /\ phone' = v
  /\ UNCHANGED <<email, fullName, role, dateOfBirth,
                 address, specialization, licenseNumber, experience,
                 dialogVars, flightVars, clockVars, sessVars, appVars,
                 called, issued>>

ChangeDateOfBirth(v) ==
  /\ FormShown
  /\ activeTab = "register"
  /\ role = "patient"
  /\ dateOfBirth' = v
  /\ UNCHANGED <<email, fullName, role, phone,
                 address, specialization, licenseNumber, experience,
                 dialogVars, flightVars, clockVars, sessVars, appVars,
                 called, issued>>

ChangeAddress(v) ==
  /\ FormShown
  /\ activeTab = "register"
  /\ role = "patient"
  /\ address' = v
  /\ UNCHANGED <<email, fullName, role, phone,
                 dateOfBirth, specialization, licenseNumber, experience,
                 dialogVars, flightVars, clockVars, sessVars, appVars,
                 called, issued>>

ChangeSpecialization(v) ==
  /\ FormShown
  /\ activeTab = "register"
  /\ role = "doctor"
  /\ specialization' = v
  /\ UNCHANGED <<email, fullName, role, phone,
                 dateOfBirth, address, licenseNumber, experience,
                 dialogVars, flightVars, clockVars, sessVars, appVars,
                 called, issued>>

ChangeLicenseNumber(v) ==
  /\ FormShown
  /\ activeTab = "register"
  /\ role = "doctor"
  /\ licenseNumber' = v
  /\ UNCHANGED <<email, fullName, role, phone,
                 dateOfBirth, address, specialization, experience,
                 dialogVars, flightVars, clockVars, sessVars, appVars,
                 called, issued>>

ChangeExperience(v) ==
  /\ FormShown
  /\ activeTab = "register"
  /\ role = "doctor"
  /\ experience' = v
  /\ UNCHANGED <<email, fullName, role, phone,
                 dateOfBirth, address, specialization, licenseNumber,
                 dialogVars, flightVars, clockVars, sessVars, appVars,
                 called, issued>>

\* the OTP input: onChange with the field's new raw value
ChangeOtp(raw) ==
  /\ OtpShown
  /\ otp' = SanitizeOtp(raw)
  /\ UNCHANGED <<draftVars, open, activeTab, step, isLoading, timer,
                 flightVars, clockVars, sessVars, appVars, called, issued>>

ClickSendLoginCode ==
  /\ FormShown
  /\ activeTab = "login"
  /\ ~SendLoginCodeDisabled
  /\ handleSendOTP(TRUE)
  /\ UNCHANGED <<called, issued>>

ClickCreateAccount ==
  /\ FormShown
  /\ activeTab = "register"
  /\ ~CreateAccountDisabled
  /\ handleSendOTP(FALSE)
  /\ UNCHANGED <<called, issued>>

ClickVerify ==
  /\ OtpShown
  /\ ~VerifyDisabled
  /\ handleVerifyOTP
  /\ UNCHANGED <<called, issued>>

ClickResend ==
  /\ OtpShown
  /\ ~ResendDisabled
  /\ handleResendOTP
  /\ UNCHANGED <<called, issued>>

ClickBack ==
  /\ OtpShown
  /\ handleBackToForm
  /\ UNCHANGED <<called, issued>>

\* --------------------------------- the callbacks driven directly, whatever
\* the disabled attribute of the button they are bound to
Driven(handler, startedCall) == [handler |-> handler, acted |-> startedCall]

CallHandleSendOTP(isLogin) ==
  /\ FormShown
  /\ activeTab = IF isLogin THEN "login" ELSE "register"
  /\ handleSendOTP(isLogin)
  /\ called' = Driven("handleSendOTP", sendCalls' # sendCalls)
  /\ UNCHANGED issued

CallHandleVerifyOTP ==
  /\ OtpShown
  /\ handleVerifyOTP
  /\ called' = Driven("handleVerifyOTP", verifyCalls' # verifyCalls)
  /\ UNCHANGED issued

CallHandleResendOTP ==
  /\ OtpShown
  /\ handleResendOTP
  /\ called' = Driven("handleResendOTP", sendCalls' # sendCalls)
  /\ UNCHANGED issued

CallHandleBackToForm ==
  /\ OtpShown
  /\ handleBackToForm
  /\ called' = Driven("handleBackToForm", FALSE)
  /\ UNCHANGED issued

\* ------------------------- the context operations called by a consumer
ContextOps == {"registerUser", "verifyRegistration", "sendOTP",
               "verifyOTPAndLogin", "logout", "refreshSession",
               "updateProfile"}

\* The outcomes the backend call of operation op can settle with.
OutcomesOf(op) ==
  CASE op = "verifyRegistration" -> VerifyRegistrationOutcomes
    [] op = "verifyOTPAndLogin" -> VerifyLoginOutcomes
    [] op = "refreshSession" -> GetCurrentUserOutcomes
    [] op = "logout" -> LogoutOutcomes
    [] OTHER -> PlainOutcomes

\* Operation op once its one backend call settled with o.
ContextOp(op, o) ==
  CASE op = "registerUser" -> registerUser(o)
    [] op = "verifyRegistration" -> verifyRegistration(o)
    [] op = "sendOTP" -> sendOTP(o)
    [] op = "verifyOTPAndLogin" -> verifyOTPAndLogin(o)
    [] op = "logout" -> logout(o)
    [] op = "refreshSession" -> refreshSession(o)

\* An in-flight operation: awaiting its own backend call (stage backend),
\* or, for updateProfile, awaiting the refreshSession it started (stage
\* refresh) and then resumed by it (stage return), with the result it will
\* return; and whether a logout has completed since it was started.
Pending(op) ==
  [op |-> op, stage |-> "backend", ret |-> ReturnedVoid,
   beforeLogout |-> FALSE, pos |-> 0]

\* The bag calls with one copy of c taken out, and with one copy of c put in.
Without(calls, c) == calls (-) SetToBag({c})

With(calls, c) == calls (+) SetToBag({c})

\* An in-flight operation once a logout has completed with its backend call
\* successful: it was started before it (recorded for the operations that
\* call setUser with a user, the refreshSession that updateProfile awaits
\* included).
Overtaken(c) ==
  IF \/ c.op \in {"verifyRegistration", "verifyOTPAndLogin", "refreshSession"}
     \/ c.stage = "refresh"
  THEN [c EXCEPT !.beforeLogout = TRUE]
  ELSE c

\* The operations in flight once such a logout has completed.
OvertakenByLogout(calls) == BagOfAll(Overtaken, calls)

\* What the last completed operation handed to its caller, and whether its
\* own backend call had thrown.
Completion(op, threw, ret) == [op |-> op, threw |-> threw, ret |-> ret]

\* A consumer takes the context value of the provider's latest render.
ConsumerRenders ==
  /\ NoContinuationQueued
  /\ heldUser # user
  /\ heldUser' = user
  /\ UNCHANGED <<draftVars, dialogVars, flightVars, clockVars, sessVars,
                 appCalls, lastRet, called, issued>>

\* A consumer calls a context operation, on the context value it holds
\* (from an event handler or an effect, or from a continuation of its own
\* while others are queued).
ContextCall(op) ==
  /\ op \in ContextOps
  /\ IF op = "updateProfile" /\ updateProfileNoUser
     THEN /\ lastRet' = Completion(op, FALSE,
                                   Returned(FALSE, "No user logged in"))
          /\ UNCHANGED appCalls
     ELSE /\ BagCardinality(appCalls) < MaxAppCalls
          /\ appCalls' = With(appCalls, Pending(op))
          /\ UNCHANGED lastRet
  /\ UNCHANGED <<draftVars, dialogVars, flightVars, clockVars, sessVars,
                 heldUser, called, issued>>

\* The backend call that the in-flight operation c awaits settles with
\* outcome o, and the continuation of the function that awaited it runs.
ContextCallSettles(c, o) ==
  /\ BagIn(c, appCalls)
  /\ IF c.op = "updateProfile"
     THEN IF c.stage = "backend"
          THEN /\ o \in PlainOutcomes
               /\ IF updateProfileSettled(o).refresh
                  THEN /\ appCalls' =
                            With(Without(appCalls, c),
                                 [c EXCEPT !.stage = "refresh",
                                           !.ret = updateProfileSettled(o).ret])
                       /\ UNCHANGED lastRet
                  ELSE /\ appCalls' = Without(appCalls, c)
                       /\ lastRet' = Completion(c.op, o.throws,
                                                updateProfileSettled(o).ret)
               /\ UNCHANGED <<user, token>>
          ELSE /\ c.stage = "refresh"
               /\ o \in GetCurrentUserOutcomes
               /\ appCalls' = With(Without(appCalls, c),
                                   [c EXCEPT !.stage = "return",
                                             !.pos = Queued + 1])
               /\ user' = refreshSession(o).user
               /\ token' = refreshSession(o).token
               /\ UNCHANGED lastRet
     ELSE /\ o \in OutcomesOf(c.op)
          /\ appCalls' = IF c.op = "logout" /\ ~o.throws
                         THEN OvertakenByLogout(Without(appCalls, c))
                         ELSE Without(appCalls, c)
          /\ user' = ContextOp(c.op, o).user
          /\ token' = ContextOp(c.op, o).token
          /\ lastRet' = Completion(c.op, o.throws, ContextOp(c.op, o).ret)
  /\ UNCHANGED <<draftVars, dialogVars, flightVars, clockVars, ctxIsLoading,
                 initPending, heldUser, called, issued>>

\* updateProfile, resumed by the refreshSession it awaited, returns its
\* result.
UpdateProfileReturns(c) ==
  /\ BagIn(c, appCalls)
  /\ c.pos = 1
  /\ appCalls' = BagOfAll(Advance, Without(appCalls, c))
  /\ verifyCalls' = AdvanceAll(verifyCalls)
  /\ sendCalls' = AdvanceAll(sendCalls)
  /\ lastRet' = Completion(c.op, FALSE, c.ret)
  /\ UNCHANGED <<draftVars, dialogVars, clockVars, sessVars, heldUser,
                 called, issued>>

\* The getCurrentUser call of initializeAuth settles with outcome o.
InitializeAuthSettles(o) ==
  /\ Mounted
  /\ initPending
  /\ o \in GetCurrentUserOutcomes
  /\ initPending' = FALSE
  /\ user' = initializeAuth(o).user
  /\ ctxIsLoading' = initializeAuth(o).isLoading
  /\ lastRet' = Completion("initializeAuth", o.throws, ReturnedVoid)
  /\ UNCHANGED <<draftVars, dialogVars, flightVars, clockVars, token,
                 appCalls, heldUser, called, issued>>

\* ---------------------------------------------------------- specifications
Tabs == {"login", "register"}

EmailInputs == {"a@b.com"}

EmailInputsOrNone == {"", "a@b.com"}

NameInputs == {"Dr. X"}

NameInputsOrNone == {"", "Dr. X"}

\* What reaches the OTP field's onChange in Spec: the field cleared, or a
\* code pasted onto its end.
OtpRawValues == {<<>>, otp \o <<"1", "2", "a", "3", "4", "5", "6">>}

\* In SpecHandlers: a digit or a letter typed onto its end, a long string
\* pasted over its content, the field cleared.
OtpRawValuesWide ==
  {otp \o <<"7">>, otp \o <<"x">>,
   <<"1", "2", " ", "3", "4", "5", "6", "7", "8">>, <<>>}

NoCompletion == Completion("none", FALSE, ReturnedVoid)

\* Both components mounted: the dialog closed on its default tab, the
\* initial getCurrentUser call in flight.
Init ==
  /\ open = FALSE
  /\ activeTab \in Tabs
  /\ step = "form"
  /\ email = ""
  /\ otp = <<>>
  /\ isLoading = FALSE
  /\ timer = 0
  /\ fullName = ""
  /\ role = "patient"
  /\ phone = ""
  /\ dateOfBirth = ""
  /\ address = ""
  /\ specialization = ""
  /\ licenseNumber = ""
  /\ experience = <<>>
  /\ sendCalls = <<>>
  /\ verifyCalls = <<>>
  /\ due = 0
  /\ fired = 0
  /\ timeouts = <<>>
  /\ redirect = "none"
  /\ dec = 0
  /\ user = NULL
  /\ ctxIsLoading = TRUE
  /\ token = NoToken
  /\ initPending = TRUE
  /\ appCalls = EmptyBag
  /\ lastRet = NoCompletion
  /\ heldUser = NULL
  /\ called = Driven("none", FALSE)
  /\ issued = Issued("none", "")

\* Spec: the dialog as the user drives it through a login or a registration,
\* up to the redirect; the countdown is followed for MaxTicks seconds.
Next ==
  \/ OpenDialog
  \/ \E v \in Tabs : ChangeTab(v)
  \/ \E e \in EmailInputs : ChangeEmail(e)
  \/ \E n \in NameInputs : ChangeFullName(n)
  \/ ToggleRole
  \/ \E raw \in OtpRawValues : ChangeOtp(raw)
  \/ ClickSendLoginCode
  \/ ClickCreateAccount
  \/ ClickVerify
  \/ ClickBack
  \/ \E i \in 1..MaxInFlight, o \in PlainOutcomes : SendOTPReturns(i, o)
  \/ \E i \in 1..MaxInFlight : SendOTPSettles(i)
  \/ \E i \in 1..MaxInFlight,
        o \in VerifyRegistrationOutcomes \cup VerifyLoginOutcomes :
        VerifyOTPReturns(i, o)
  \/ \E i \in 1..MaxInFlight : VerifyOTPSettles(i)
  \/ IntervalFiresEarly
  \/ \E j \in 1..MaxTimeouts : RedirectFires(j)
  \/ SecondElapses
  \/ \E o \in GetCurrentUserOutcomes : InitializeAuthSettles(o)

Spec == Init /\ [][Next]_vars

\* SpecRegistration: the dialog as the user drives it through a registration,
\* up to the redirect.
NextRegistration ==
  \/ OpenDialog
  \/ \E v \in Tabs : ChangeTab(v)
  \/ \E e \in EmailInputs : ChangeEmail(e)
  \/ \E n \in NameInputs : ChangeFullName(n)
  \/ ToggleRole
  \/ \E raw \in OtpRawValues : ChangeOtp(raw)
  \/ ClickCreateAccount
  \/ ClickVerify
  \/ \E i \in 1..MaxInFlight, o \in PlainOutcomes : SendOTPReturns(i, o)
  \/ \E i \in 1..MaxInFlight : SendOTPSettles(i)
  \/ \E i \in 1..MaxInFlight, o \in VerifyRegistrationOutcomes :
        VerifyOTPReturns(i, o)
  \/ \E i \in 1..MaxInFlight : VerifyOTPSettles(i)
  \/ IntervalFiresEarly
  \/ \E j \in 1..MaxTimeouts : RedirectFires(j)
  \/ SecondElapses
  \/ \E o \in GetCurrentUserOutcomes : InitializeAuthSettles(o)

SpecRegistration == Init /\ [][NextRegistration]_vars

\* SpecHandlers: the dialog's callbacks driven directly, whatever the disabled
\* attribute of their buttons, on every draft the form can hold; the backend
\* refuses every verification, so the dialog stays on the page.
NextHandlers ==
  \/ OpenDialog
  \/ \E v \in Tabs : ChangeTab(v)
  \/ \E e \in EmailInputsOrNone : ChangeEmail(e)
  \/ \E n \in NameInputsOrNone : ChangeFullName(n)
  \/ \E raw \in OtpRawValuesWide : ChangeOtp(raw)
  \/ \E isLogin \in BOOLEAN : CallHandleSendOTP(isLogin)
  \/ CallHandleVerifyOTP
  \/ \E i \in 1..MaxInFlight, o \in PlainOutcomes : SendOTPReturns(i, o)
  \/ \E i \in 1..MaxInFlight : SendOTPSettles(i)
  \/ \E i \in 1..MaxInFlight :
        VerifyOTPReturns(i, Answer(FALSE, NULL, NoToken))
  \/ \E i \in 1..MaxInFlight : VerifyOTPSettles(i)

SpecHandlers == Init /\ [][NextHandlers]_vars

\* SpecCountdown: Initiate, Back, Resend and dismissal of the dialog, with
\* the countdown followed all the way from 60 to 0.
NextCountdown ==
  \/ OpenDialog
  \/ DismissDialog
  \/ \E v \in Tabs : ChangeTab(v)
  \/ \E e \in EmailInputs : ChangeEmail(e)
  \/ \E n \in NameInputs : ChangeFullName(n)
  \/ ClickSendLoginCode
  \/ ClickCreateAccount
  \/ ClickBack
  \/ ClickResend
  \/ CallHandleResendOTP
  \/ \E i \in 1..MaxInFlight, o \in PlainOutcomes : SendOTPReturns(i, o)
  \/ \E i \in 1..MaxInFlight : SendOTPSettles(i)
  \/ IntervalFires
  \/ SecondElapses

SpecCountdown == Init /\ [][NextCountdown]_vars

\* The operations that read or write the session user.
SessionOps == {"verifyRegistration", "verifyOTPAndLogin", "logout",
               "refreshSession", "updateProfile"}

\* SpecSession: the session context driven by its consumers, through the
\* operations that read or write the session user.
NextSession ==
  \/ ConsumerRenders
  \/ \E op \in SessionOps : ContextCall(op)
  \/ \E c \in BagToSet(appCalls),
        o \in PlainOutcomes \cup VerifyRegistrationOutcomes
                \cup VerifyLoginOutcomes \cup GetCurrentUserOutcomes
                \cup LogoutOutcomes :
        ContextCallSettles(c, o)
  \/ \E c \in BagToSet(appCalls) : UpdateProfileReturns(c)
  \/ \E o \in GetCurrentUserOutcomes : InitializeAuthSettles(o)

SpecSession == Init /\ [][NextSession]_vars

\* What is typed into the profile inputs in SpecProfile.
PhoneInputs == {"555-0100"}

DateInputs == {"1990-01-01"}

AddressInputs == {"1 Main St"}

SpecializationInputs == {"Cardiology"}

LicenseInputs == {"MD-1"}

\* What the number input of the experience field hands to onChange: the
\* text of a valid floating-point number.
ExperienceInputs == {<<"7">>, <<"1", ".", "5">>, <<"1", "e", "3">>}

\* SpecProfile: the register tab filled in, in any order and with the role
\* toggled at any point, and submitted; from the otp step, a code typed and
\* Back to the form.
NextProfile ==
  \/ OpenDialog
  \/ \E e \in EmailInputs : ChangeEmail(e)
  \/ \E n \in NameInputs : ChangeFullName(n)
  \/ ToggleRole
  \/ \E v \in PhoneInputs : ChangePhone(v)
  \/ \E v \in DateInputs : ChangeDateOfBirth(v)
  \/ \E v \in AddressInputs : ChangeAddress(v)
  \/ \E v \in SpecializationInputs : ChangeSpecialization(v)
  \/ \E v \in LicenseInputs : ChangeLicenseNumber(v)
  \/ \E v \in ExperienceInputs : ChangeExperience(v)
  \/ ClickCreateAccount
  \/ \E i \in 1..MaxInFlight, o \in PlainOutcomes : SendOTPReturns(i, o)
  \/ \E i \in 1..MaxInFlight : SendOTPSettles(i)
  \/ \E raw \in OtpRawValues : ChangeOtp(raw)
  \/ CallHandleBackToForm

SpecProfile == Init /\ [][NextProfile]_vars

\* Two addresses the user may type one after the other.
EmailInputsTwo == {"a@b.com", "c@d.com"}

\* SpecEdits: a login or a registration on a draft whose email is edited at
\* any point, also while the Initiate call is in flight.
NextEdits ==
  \/ OpenDialog
  \/ \E e \in EmailInputsTwo : ChangeEmail(e)
  \/ \E n \in NameInputs : ChangeFullName(n)
  \/ ClickSendLoginCode
  \/ ClickCreateAccount
  \/ \E raw \in OtpRawValues : ChangeOtp(raw)
  \/ ClickVerify
  \/ \E i \in 1..MaxInFlight, o \in PlainOutcomes : SendOTPReturns(i, o)
  \/ \E i \in 1..MaxInFlight : SendOTPSettles(i)
  \/ \E i \in 1..MaxInFlight,
        o \in VerifyRegistrationOutcomes \cup VerifyLoginOutcomes :
        VerifyOTPReturns(i, o)
  \/ \E i \in 1..MaxInFlight : VerifyOTPSettles(i)

SpecEdits == Init /\ [][NextEdits]_vars

\* ------------------------------------------------------------------ claims
ValidDraft(isLogin) == email # "" /\ (isLogin \/ fullName # "")

\* C1: Initiate starts a backend call only on a draft with a non-empty email
\* and, on registration, a non-empty full name, and then it is registerUser
\* for registration and sendOTP for login; on any other draft it starts no
\* call and leaves the step, the timer and the loading flag as they were.
C1_InitiateValidates ==
  [][\A isLogin \in BOOLEAN :
       CallHandleSendOTP(isLogin) =>
         /\ sendCalls' # sendCalls =>
              /\ ValidDraft(isLogin)
              /\ Len(sendCalls') = Len(sendCalls) + 1
              /\ sendCalls'[Len(sendCalls')].op =
                   IF isLogin THEN "sendOTP" ELSE "registerUser"
              /\ sendCalls'[Len(sendCalls')].email = email
         /\ ~ValidDraft(isLogin) =>
              UNCHANGED <<sendCalls, verifyCalls, appCalls, step, timer,
                          isLoading>>]_vars

\* A registration Initiate was refused for its empty full name.
C1_Witness ==
  /\ called = Driven("handleSendOTP", FALSE)
  /\ activeTab = "register"
  /\ step = "form"
  /\ email # ""
  /\ fullName = ""
  /\ sendCalls = <<>>

OtpIsCode == Len(otp) = OtpLength /\ \A k \in 1..Len(otp) : otp[k] \in Digits

\* C2: whatever is typed, the stored code holds only digits and at most 6 of
\* them; Verify starts a verification call if and only if the stored code
\* is exactly 6 digits, and otherwise changes nothing.
C2_VerifyGate ==
  /\ [](Len(otp) <= OtpLength /\ \A k \in 1..Len(otp) : otp[k] \in Digits)
  /\ [][CallHandleVerifyOTP =>
          IF OtpIsCode
          THEN /\ Len(verifyCalls') = Len(verifyCalls) + 1
               /\ verifyCalls'[Len(verifyCalls')].otp = otp
               /\ sendCalls' = sendCalls
          ELSE UNCHANGED progVars]_vars

\* Verify was refused on a 5-digit code.
C2_Witness ==
  /\ called = Driven("handleVerifyOTP", FALSE)
  /\ step = "otp"
  /\ Len(otp) = 5
  /\ verifyCalls = <<>>

\* C3: Resend starts no call and changes nothing while the timer is above 0;
\* at 0 it is Initiate for the active tab on the draft the dialog holds.
C3_ResendGate ==
  [][CallHandleResendOTP =>
       IF timer > 0 \/ ~ValidDraft(activeTab = "login")
       THEN UNCHANGED progVars
       ELSE /\ Len(sendCalls') = Len(sendCalls) + 1
            /\ sendCalls'[Len(sendCalls')] =
                 IF activeTab = "login"
                 THEN [op |-> "sendOTP", email |-> email,
                       stage |-> "backend", ret |-> ReturnedVoid, pos |-> 0]
                 ELSE [op |-> "registerUser", email |-> email,
                       fullName |-> fullName, role |-> role,
                       profile |-> BuildProfile,
                       stage |-> "backend", ret |-> ReturnedVoid, pos |-> 0]
            /\ isLoading'
            /\ UNCHANGED <<draftVars, open, activeTab, step, otp, timer,
                           verifyCalls, clockVars, sessVars, appVars>>]_vars

\* After a whole countdown, Resend re-issued the registration call.
C3_Witness ==
  /\ called = Driven("handleResendOTP", TRUE)
  /\ step = "otp"
  /\ timer = 0
  /\ Len(sendCalls) = 1
  /\ sendCalls[1].op = "registerUser"

\* C4: after a successful Initiate the timer is 60 and each elapsed second
\* lowers it by exactly 1 until 0, over any sequence of dialog operations
\* (Back followed by a new Initiate included): in no second do the
\* countdown callbacks lower the timer by more than 1.
C4_CountdownByOne == dec <= 1

\* C5: when verifyRegistration answers a 6-digit Verify with success, a user
\* and a token, the session user is that user, the token is stored, the
\* dialog closes, the redirect scheduled goes to the dashboard of the role
\* selected when Verify was submitted, and no other call is started.
C5_RegistrationVerified ==
  /\ [][\A i \in 1..Len(verifyCalls), o \in VerifyRegistrationOutcomes :
          ( /\ verifyCalls[i].op = "verifyRegistration"
            /\ ~o.throws /\ o.success /\ o.user # NULL /\ o.token # NoToken
            /\ VerifyOTPReturns(i, o) )
          => /\ Len(verifyCalls[i].otp) = OtpLength
             /\ user' = o.user
             /\ token' = o.token
             /\ verifyCalls'[i].ret.success
             /\ Len(sendCalls') = Len(sendCalls)
             /\ Len(verifyCalls') = Len(verifyCalls)
             /\ appCalls' = appCalls]_vars
  /\ [][\A i \in 1..Len(verifyCalls) :
          ( /\ verifyCalls[i].op = "verifyRegistration"
            /\ verifyCalls[i].ret.success
            /\ VerifyOTPSettles(i) )
          => /\ ~open'
             /\ Len(timeouts') = Len(timeouts) + 1
             /\ RedirectTarget(timeouts'[Len(timeouts')]) =
                  IF verifyCalls[i].role = "doctor"
                  THEN DoctorDashboard ELSE PatientDashboard
             /\ Len(sendCalls') = Len(sendCalls)
             /\ Len(verifyCalls') = Len(verifyCalls) - 1
             /\ appCalls' = appCalls]_vars

\* A doctor's registration was verified and the page went to the doctor
\* dashboard.
C5_Witness ==
  /\ redirect = DoctorDashboard
  /\ role = "doctor"
  /\ user = Doctor
  /\ token \in Tokens
  /\ ~open
  /\ sendCalls = <<>>
  /\ verifyCalls = <<>>

\* Where the session user u belongs.
DashboardOf(u) ==
  IF u # NULL /\ u.role = "doctor" THEN DoctorDashboard ELSE PatientDashboard

\* C6: on the login path the redirect, when its delay elapses, goes to the
\* dashboard of the session user as it is at that moment (the patient
\* dashboard when there is none).
C6_LoginRedirectBySession ==
  [][\A j \in 1..Len(timeouts) :
       RedirectFires(j) /\ timeouts[j].kind = "login"
       => redirect' = DashboardOf(user)]_vars

\* C7: once logout() has completed the session user is null, whether the
\* backend logout call returned or threw.
C7_LogoutClears ==
  [][\A c \in BagToSet(appCalls), o \in LogoutOutcomes :
       c.op = "logout" /\ ContextCallSettles(c, o)
       => user' = NULL]_vars

GenericMessage(op) ==
  CASE op = "registerUser" -> "Registration failed. Please try again."
    [] op = "verifyRegistration" -> "Verification failed. Please try again."
    [] op = "sendOTP" -> "Failed to send OTP. Please try again."
    [] op = "verifyOTPAndLogin" -> "Login failed. Please try again."
    [] op = "updateProfile" -> "Failed to update profile. Please try again."
    [] OTHER -> ""

\* C8: when a backend call of a context operation throws, the operation
\* still completes without raising; the result-returning ones return
\* success=false with their generic message, and registerUser,
\* verifyRegistration, sendOTP, verifyOTPAndLogin and updateProfile leave
\* the session user as it was.  The backend calls of updateProfile are
\* authService.updateProfile and, in the refreshSession it awaits,
\* authService.getCurrentUser.
C8_NoExceptionEscapes ==
  /\ [][\A c \in BagToSet(appCalls) :
          ( /\ c.stage = "backend"
            /\ ContextCallSettles(c, Throw) )
          => /\ lastRet'.op = c.op
             /\ lastRet'.threw
             /\ lastRet'.ret.kind # "raised"
             /\ c.op \notin {"logout", "refreshSession"} =>
                  /\ lastRet'.ret = Returned(FALSE, GenericMessage(c.op))
                  /\ user' = user
             /\ c.op \in {"logout", "refreshSession"} =>
                  lastRet'.ret = ReturnedVoid]_vars
  /\ [][\A c \in BagToSet(appCalls) :
          ( /\ c.stage = "refresh"
            /\ ContextCallSettles(c, Throw) )
          => /\ user' = user
             /\ \E d \in BagToSet(appCalls') :
                  /\ d.stage = "return"
                  /\ d.ret = Returned(FALSE, GenericMessage(c.op))]_vars

\* C9 as stated: loading is true until the one initial getCurrentUser call
\* settles and false ever after, and the session user is then the returned
\* user or null.
C9_InitialFetch ==
  /\ [](ctxIsLoading <=> initPending)
  /\ [][~initPending => ~initPending']_vars
  /\ [][\A o \in GetCurrentUserOutcomes :
          InitializeAuthSettles(o)
          => user' = IF o.throws THEN NULL ELSE o.user]_vars

\* C9 as amended: ... and the session user is then the returned user if the
\* call returned one, and otherwise is left as it was when the call settled.
C9_InitialFetchAmended ==
  /\ [](ctxIsLoading <=> initPending)
  /\ [][~initPending => ~initPending']_vars
  /\ [][\A o \in GetCurrentUserOutcomes :
          InitializeAuthSettles(o)
          => /\ ~ctxIsLoading'
             /\ user' = IF ~o.throws /\ o.user # NULL THEN o.user ELSE user]_vars

\* The initial getCurrentUser call has thrown after an operation had signed
\* a patient in: loading is over and the patient is still the session user.
C9_Witness ==
  /\ lastRet = Completion("initializeAuth", TRUE, ReturnedVoid)
  /\ ~initPending
  /\ ~ctxIsLoading
  /\ user = Patient

\* C10: updateProfile without a session user returns success=false at once,
\* starts no backend call and leaves the session as it is; with a user,
\* refreshSession is started if and only if the backend update succeeded.
C10_UpdateProfile ==
  /\ [][user = NULL /\ ContextCall("updateProfile")
        => /\ lastRet' = Completion("updateProfile", FALSE,
                                    Returned(FALSE, "No user logged in"))
           /\ UNCHANGED <<appCalls, sessVars>>]_vars
  /\ [][\A c \in BagToSet(appCalls), o \in PlainOutcomes :
          ( /\ c.op = "updateProfile"
            /\ c.stage = "backend"
            /\ ContextCallSettles(c, o) )
          => ( (\E d \in BagToSet(appCalls') :
                   d.op = "updateProfile" /\ d.stage = "refresh"
                     /\ CopiesIn(d, appCalls') > CopiesIn(d, appCalls))
               <=> (~o.throws /\ o.success) )]_vars

\* C11: when the getCurrentUser call of a refreshSession (called by a consumer
\* or by updateProfile) throws, the session user is null afterwards whatever
\* it was; when the call returns, the session user is exactly what it
\* returned, a user or null.
C11_RefreshFailClosed ==
  [][\A c \in BagToSet(appCalls), o \in GetCurrentUserOutcomes :
       ( /\ c.op = "refreshSession" \/ c.stage = "refresh"
         /\ ContextCallSettles(c, o) )
       => user' = IF o.throws THEN NULL ELSE o.user]_vars

\* getCurrentUser threw under refreshSession after a registration had been
\* verified (its token is stored): no session user is left.
C11_Witness ==
  /\ lastRet = Completion("refreshSession", TRUE, ReturnedVoid)
  /\ token \in Tokens
  /\ user = NULL
  /\ appCalls = EmptyBag

PatientFields == {"phone", "dateOfBirth", "address"}

DoctorFields == {"phone", "specialization", "licenseNumber", "experience"}

\* C12: the profile passed to registerUser has exactly the fields of the role
\* passed in the same call: phone, dateOfBirth, address for a patient and
\* phone, specialization, licenseNumber, experience for a doctor, whatever
\* the draft holds in the fields of the other role.
C12_ProfileShape ==
  \A i \in 1..Len(sendCalls) :
    sendCalls[i].op = "registerUser" =>
      DOMAIN sendCalls[i].profile =
        IF sendCalls[i].role = "patient" THEN PatientFields ELSE DoctorFields

\* A patient registration in flight while the draft still holds what was
\* typed into the doctor's fields.
C12_Witness ==
  /\ Len(sendCalls) = 1
  /\ sendCalls[1].op = "registerUser"
  /\ sendCalls[1].role = "patient"
  /\ sendCalls[1].profile.address # ""
  /\ specialization # ""
  /\ licenseNumber # ""
  /\ experience # <<>>

\* C13: an Initiate issued from the form step (the first one, or the one
\* that follows Back on the unchanged draft) and answered with success
\* leaves the dialog as the first Initiate did: step otp, empty code,
\* timer 60 and one countdown running, which lowers it by 1 per second.
C13_BackRoundTrip ==
  [][\A i \in 1..Len(sendCalls) :
       ( /\ SendOTPSettles(i)
         /\ step = "form"
         /\ sendCalls[i].ret.success )
       => /\ [sendCalls[i] EXCEPT !.stage = "backend", !.ret = ReturnedVoid,
                                  !.pos = 0]
               = SendCall(sendCalls[i].op = "sendOTP")
             => /\ step' = "otp"
                /\ otp' = <<>>
                /\ timer' = TimerStart
                /\ due' + fired' = 1]_vars

\* C14: Back from the otp step sets the step to form, the code to empty and
\* the timer to 0, and leaves the active tab, the email, the full name, the
\* role and every profile field as they were.
C14_BackFrame ==
  [][CallHandleBackToForm =>
       /\ step' = "form"
       /\ otp' = <<>>
       /\ timer' = 0
       /\ UNCHANGED <<activeTab, email, fullName, role, phone, dateOfBirth,
                      address, specialization, licenseNumber, experience>>]_vars

\* Back has returned a doctor's filled-in registration to the form step.
C14_Witness ==
  /\ called = Driven("handleBackToForm", FALSE)
  /\ step = "form"
  /\ otp = <<>>
  /\ timer = 0
  /\ activeTab = "register"
  /\ role = "doctor"
  /\ email # ""
  /\ fullName # ""
  /\ phone # ""
  /\ specialization # ""
  /\ licenseNumber # ""
  /\ experience # <<>>

\* C15: resetForm, which runs when a verification has succeeded, returns
\* every transient field of the dialog to its default: step form, empty
\* email, code and full name, role patient, empty profile fields, timer 0.
C15_ResetDefaults ==
  [][\A i \in 1..Len(verifyCalls) :
       verifyCalls[i].ret.success /\ VerifyOTPSettles(i)
       => /\ step' = "form"
          /\ email' = ""
          /\ otp' = <<>>
          /\ fullName' = ""
          /\ role' = "patient"
          /\ phone' = "" /\ dateOfBirth' = "" /\ address' = ""
          /\ specialization' = "" /\ licenseNumber' = ""
          /\ experience' = <<>>
          /\ timer' = 0]_vars

\* C16: whenever the dialog is closed, by whatever route, the step is form
\* and the email and the code have been discarded, so that it never reopens
\* in the otp step or on a previous email or code.
C16_ClosedIsReset ==
  ~open => step = "form" /\ email = "" /\ otp = <<>>

\* C17: when the backend answers an Initiate, a Resend or a Verify with
\* success=false, the step, the entered code, every draft field and the
\* timer stay as they were, no countdown is started, no redirect is
\* scheduled, the dialog stays open, and the loading flag is false again.
C17_FailureLeavesState ==
  /\ [][\A i \in 1..Len(sendCalls) :
          SendOTPReturns(i, Answer(FALSE, NULL, NoToken))
          => /\ UNCHANGED <<dialogVars, draftVars, clockVars>>
             /\ ~sendCalls'[i].ret.success]_vars
  /\ [][\A i \in 1..Len(sendCalls) :
          ~sendCalls[i].ret.success /\ SendOTPSettles(i)
          => /\ UNCHANGED <<step, otp, draftVars, activeTab, timer, open>>
             /\ UNCHANGED <<due, fired, timeouts, redirect>>
             /\ ~isLoading']_vars
  /\ [][\A i \in 1..Len(verifyCalls) :
          VerifyOTPReturns(i, Answer(FALSE, NULL, NoToken))
          => /\ UNCHANGED <<dialogVars, draftVars, clockVars>>
             /\ ~verifyCalls'[i].ret.success]_vars
  /\ [][\A i \in 1..Len(verifyCalls) :
          ~verifyCalls[i].ret.success /\ VerifyOTPSettles(i)
          => /\ UNCHANGED <<step, otp, draftVars, activeTab, timer, open>>
             /\ UNCHANGED <<due, fired, timeouts, redirect>>
             /\ ~isLoading']_vars

\* The verification that Verify started has been answered, without success:
\* the dialog is still on the otp step with the 6-digit code in its field.
C17_Witness ==
  /\ called = Driven("handleVerifyOTP", TRUE)
  /\ verifyCalls = <<>>
  /\ sendCalls = <<>>
  /\ open
  /\ step = "otp"
  /\ Len(otp) = OtpLength
  /\ ~isLoading
  /\ timeouts = <<>>

\* C18: at every moment at most one backend call started by the dialog
\* (Initiate, Resend or Verify) is in flight.
C18_OneCallInFlight == Len(sendCalls) + Len(verifyCalls) <= 1

\* C19: no countdown callback is scheduled while the dialog is closed or not
\* in the otp step: Back, the reset after a successful Verify and the
\* closing of the dialog each cancel the running countdown.
C19_NoCountdownOutsideOtp ==
  (~open \/ step # "otp") => due + fired = 0

\* C20: whenever Verify calls the backend it takes the verification path of
\* the flow that issued the outstanding code: verifyRegistration only if the
\* last Initiate answered with success was a registerUser call, and
\* verifyOTPAndLogin only if it was a sendOTP call.
C20_VerifyPathMatchesFlow ==
  [][ClickVerify /\ verifyCalls' # verifyCalls
     => LET c == verifyCalls'[Len(verifyCalls')]
        IN /\ c.op = "verifyRegistration" => issued.op = "registerUser"
           /\ c.op = "verifyOTPAndLogin" => issued.op = "sendOTP"]_vars

\* C21: whenever Verify calls the backend, the email it passes is the email
\* that was passed to the last Initiate call answered with success, the
\* address the outstanding code was issued for.
C21_VerifyEmailMatchesIssued ==
  [][ClickVerify /\ verifyCalls' # verifyCalls
     => verifyCalls'[Len(verifyCalls')].email = issued.email]_vars

\* C22: whenever a verification closes the dialog and schedules the
\* redirect, that verification call has set the session user: no redirect
\* is scheduled after a result that left the session user unset.
C22_RedirectOnlyWithUser ==
  [][\A i \in 1..Len(verifyCalls) :
       VerifyOTPSettles(i) /\ Len(timeouts') > Len(timeouts)
       => /\ ~open'
          /\ verifyCalls[i].signedIn]_vars

\* The last operation to complete is a logout whose backend call succeeded.
LoggedOut == lastRet = Completion("logout", FALSE, ReturnedVoid)

\* C23: once logout() has completed with a successful backend call, the
\* session user is null and stays null until a verifyRegistration, a
\* verifyOTPAndLogin or a refreshSession (called by a consumer or by
\* updateProfile) started after that logout sets it: neither the initial
\* fetch nor an operation that was in flight when the logout completed
\* restores a user.
C23_LogoutNotUndone ==
  /\ [][LoggedOut' /\ ~LoggedOut => user' = NULL]_vars
  /\ [][LoggedOut /\ user = NULL /\ user' # NULL
        => \E c \in BagToSet(appCalls) : \E o \in GetCurrentUserOutcomes
               \cup VerifyRegistrationOutcomes \cup VerifyLoginOutcomes :
             /\ ~c.beforeLogout
             /\ \/ c.op \in {"verifyRegistration", "verifyOTPAndLogin",
                              "refreshSession"}
                \/ c.stage = "refresh"
             /\ ContextCallSettles(c, o)]_vars

=============================================================================
